---- MODULE Spec2Model ----
(***************************************************************************)
(* go-discid: Go bindings to libdiscid.  The model covers the construction *)
(* paths Put and Parse, the Track accessor and Close, together with the    *)
(* part of the native library the bindings call.                           *)
(*                                                                         *)
(* Go's int is 64 bits wide on the usual builds and C's int is 32 bits.    *)
(* A Go int is the record [hi, lo] standing for hi * 2^32 + lo with lo in  *)
(* the signed 32-bit range, so that the conversion C.int(n) is n.lo.  A C  *)
(* int is a plain integer of the signed 32-bit range.  Strings are         *)
(* sequences of one-character strings.                                     *)
(***************************************************************************)
EXTENDS Integers, Sequences, FiniteSets, TLC

VARIABLES call, outcome, disc, err, native, log, track, got

vars == <<call, outcome, disc, err, native, log, track, got>>

(***************************************************************************)
(* Go int arithmetic on [hi, lo] records, by 16-bit limbs.                 *)
(***************************************************************************)
Limb == 256 * 256

HalfLimb == Limb \div 2

\* hi * 2^32 + a * 2^16 + b, for small a and b of either sign, normalised.
Norm(h, a, b) ==
  LET c  == b \div Limb
      b2 == b % Limb
      a2 == a + c
      q  == (a2 + HalfLimb) \div Limb
      r  == a2 - q * Limb
  IN  [hi |-> h + q, lo |-> r * Limb + b2]

GoInt(n) == [hi |-> 0, lo |-> n]

GoAdd(x, y) ==
  Norm(x.hi + y.hi, (x.lo \div Limb) + (y.lo \div Limb), (x.lo % Limb) + (y.lo % Limb))

GoSub(x, y) ==
  Norm(x.hi - y.hi, (x.lo \div Limb) - (y.lo \div Limb), (x.lo % Limb) - (y.lo % Limb))

GoNeg(x) == GoSub(GoInt(0), x)

GoLess(x, y) == x.hi < y.hi \/ (x.hi = y.hi /\ x.lo < y.lo)

\* n*10 + d of strconv.Atoi's loop.
GoMul10Add(x, d) == Norm(10 * x.hi, 10 * (x.lo \div Limb), 10 * (x.lo % Limb) + d)

\* The conversion C.int(n): the low 32 bits, read as a signed number.
CInt(x) == x.lo

\* The conversion int(c) of a C int.
GoOfC(c) == [hi |-> 0, lo |-> c]

(***************************************************************************)
(* Decimal text.                                                           *)
(***************************************************************************)
DigitChars == <<"0", "1", "2", "3", "4", "5", "6", "7", "8", "9">>

\* ch - '0' for a digit, and a value above 9 for any other byte.
DigitVal(ch) ==
  IF \E d \in 1..10 : DigitChars[d] = ch
  THEN (CHOOSE d \in 1..10 : DigitChars[d] = ch) - 1
  ELSE 10

RECURSIVE NatDigits(_)
NatDigits(n) ==
  IF n < 10 THEN <<DigitChars[n + 1]>>
  ELSE NatDigits(n \div 10) \o <<DigitChars[(n % 10) + 1]>>

\* printf's %d of a C int.
FormatC(c) == IF c < 0 THEN <<"-">> \o NatDigits(-c) ELSE NatDigits(c)

\* A non-negative Go int as the limbs <<h, a, b>> of h * 2^32 + a * 2^16 + b.
Limbs(x) ==
  LET a == x.lo \div Limb
  IN  IF a < 0 THEN <<x.hi - 1, a + Limb, x.lo % Limb>>
      ELSE <<x.hi, a, x.lo % Limb>>

RECURSIVE LimbDigits(_)
LimbDigits(t) ==
  LET qh == t[1] \div 10
      ta == (t[1] % 10) * Limb + t[2]
      qa == ta \div 10
      tb == (ta % 10) * Limb + t[3]
      qb == tb \div 10
      d  == tb % 10
  IN  IF qh = 0 /\ qa = 0 /\ qb = 0 THEN <<DigitChars[d + 1]>>
      ELSE LimbDigits(<<qh, qa, qb>>) \o <<DigitChars[d + 1]>>

\* fmt's %v (strconv.Itoa) of a Go int.
FormatGo(x) ==
  IF GoLess(x, GoInt(0)) THEN <<"-">> \o LimbDigits(Limbs(GoNeg(x)))
  ELSE LimbDigits(Limbs(x))

(***************************************************************************)
(* The Go standard library calls Parse makes.                              *)
(***************************************************************************)
NoErr == [kind |-> "nil"]

\* errors.New(fmt.Sprintf(format, args...)): the format and its arguments.
ErrorString(format, values) ==
  [kind |-> "errorString", msg |-> format, args |-> values]

\* The *strconv.NumError of a token that is no integer.
SyntaxError(s) == [kind |-> "NumError", Func |-> "Atoi", Num |-> s, Err |-> "ErrSyntax"]

RECURSIVE AtoiLoop(_, _, _)
AtoiLoop(s, k, n) ==
  IF k > Len(s) THEN [ok |-> TRUE, n |-> n]
  ELSE IF DigitVal(s[k]) > 9 THEN [ok |-> FALSE, n |-> GoInt(0)]
  ELSE AtoiLoop(s, k + 1, GoMul10Add(n, DigitVal(s[k])))

\* strconv.Atoi on a token of fewer than 19 bytes (its path for integers that
\* fit an int); the empty token is a syntax error.
Atoi(s) ==
  IF Len(s) = 0 THEN [ok |-> FALSE, n |-> GoInt(0)]
  ELSE LET signed == s[1] = "-" \/ s[1] = "+"
           body   == IF signed THEN Tail(s) ELSE s
           r      == AtoiLoop(body, 1, GoInt(0))
       IN  IF Len(body) < 1 THEN [ok |-> FALSE, n |-> GoInt(0)]
           ELSE IF r.ok /\ s[1] = "-" THEN [ok |-> TRUE, n |-> GoNeg(r.n)]
           ELSE r

\* The position of the j-th separator of s; 0 and Len(s) + 1 bracket the string.
SeparatorAt(s, j) ==
  LET sp == {k \in 1..Len(s) : s[k] = " "}
  IN  IF j = 0 THEN 0
      ELSE IF j > Cardinality(sp) THEN Len(s) + 1
      ELSE CHOOSE k \in sp : Cardinality({m \in sp : m < k}) = j - 1

\* strings.Split(toc, " "): the pieces between the separators, one more than
\* there are separators, empty pieces kept.
Split(s) ==
  LET n == Cardinality({k \in 1..Len(s) : s[k] = " "}) + 1
  IN  [j \in 1..n |-> SubSeq(s, SeparatorAt(s, j - 1) + 1, SeparatorAt(s, j) - 1)]

(***************************************************************************)
(* The native library (libdiscid) behind the C.discid_* calls.  A handle   *)
(* is the record of its fields; track_offsets has 100 entries, 0..99.      *)
(***************************************************************************)
Slots == 0..99

ZeroOffsets == [k \in Slots |-> 0]

\* discid_new: a zeroed structure.
discid_new ==
  [first_track_num |-> 0, last_track_num |-> 0, track_offsets |-> ZeroOffsets,
   success |-> FALSE, error_msg |-> ""]

\* 90 minutes of 75 sectors a second.
MAX_DISC_LENGTH == 90 * 60 * 75

PutFailed(msg) == [status |-> 0, d |-> [discid_new EXCEPT !.error_msg = msg]]

\* discid_put(d, first, last, offsets): the status and the handle's new fields.
discid_put(first, last, offsets) ==
  IF first > last \/ first < 1 \/ first > 99 \/ last < 1 \/ last > 99
  THEN PutFailed("Illegal track limits")
  ELSE IF offsets[0] > MAX_DISC_LENGTH
  THEN PutFailed("Disc too long")
  ELSE IF \E i \in 0..last : offsets[i] > offsets[0]
  THEN PutFailed("Invalid offset")
  ELSE IF \E i \in 2..last : offsets[i - 1] > offsets[i]
  THEN PutFailed("Invalid order")
  ELSE [status |-> 1,
        d |-> [first_track_num |-> first, last_track_num |-> last,
               track_offsets |-> [k \in Slots |-> IF k <= last THEN offsets[k] ELSE 0],
               success |-> TRUE, error_msg |-> ""]]

discid_get_error_msg(d) == d.error_msg

discid_get_first_track_num(d) == d.first_track_num

discid_get_last_track_num(d) == d.last_track_num

discid_get_sectors(d) == d.track_offsets[0]

discid_get_track_offset(d, i) ==
  IF i < d.first_track_num \/ i > d.last_track_num THEN 0 ELSE d.track_offsets[i]

discid_get_track_length(d, i) ==
  IF i < d.first_track_num \/ i > d.last_track_num THEN 0
  ELSE IF i < d.last_track_num THEN d.track_offsets[i + 1] - d.track_offsets[i]
  ELSE d.track_offsets[0] - d.track_offsets[i]

\* No ISRC is read by discid_put.
discid_get_track_isrc(d, i) == ""

\* " offset" for each of the tracks lo..hi, in order, by halves.
RECURSIVE TocTail(_, _, _)
TocTail(d, lo, hi) ==
  IF lo > hi THEN <<>>
  ELSE IF lo = hi THEN <<" ">> \o FormatC(d.track_offsets[lo])
  ELSE LET mid == (lo + hi) \div 2
       IN  TocTail(d, lo, mid) \o TocTail(d, mid + 1, hi)

\* discid_get_toc_string: "first last leadout" and " offset" for each track.
discid_get_toc_string(d) ==
  FormatC(d.first_track_num) \o <<" ">> \o FormatC(d.last_track_num) \o <<" ">>
    \o FormatC(d.track_offsets[0]) \o TocTail(d, d.first_track_num, d.last_track_num)

(***************************************************************************)
(* The identifiers the native library derives from a handle.               *)
(***************************************************************************)
HexLower ==
  <<"0", "1", "2", "3", "4", "5", "6", "7", "8", "9", "a", "b", "c", "d", "e", "f">>

HexUpper ==
  <<"0", "1", "2", "3", "4", "5", "6", "7", "8", "9", "A", "B", "C", "D", "E", "F">>

\* The w lowest hexadecimal digits of n >= 0, highest first.
RECURSIVE HexField(_, _, _)
HexField(n, w, chars) ==
  IF w = 0 THEN <<>>
  ELSE HexField(n \div 16, w - 1, chars) \o <<chars[(n % 16) + 1]>>

\* %08X of a C int: the eight digits of its 32 bits.
Hex8(c, chars) == HexField((c \div Limb) % Limb, 4, chars) \o HexField(c % Limb, 4, chars)

\* The sum of the decimal digits of n >= 0.
RECURSIVE cddb_sum(_)
cddb_sum(n) == IF n < 10 THEN n ELSE (n % 10) + cddb_sum(n \div 10)

\* The digit sums of the start seconds of the tracks lo..hi, by halves.
RECURSIVE FreedbSum(_, _, _)
FreedbSum(d, lo, hi) ==
  IF lo > hi THEN 0
  ELSE IF lo = hi THEN cddb_sum(d.track_offsets[lo] \div 75)
  ELSE LET mid == (lo + hi) \div 2
       IN  FreedbSum(d, lo, mid) + FreedbSum(d, mid + 1, hi)

\* discid_get_freedb_id: checksum, total seconds and track count as the
\* bytes of a 32-bit value, in lowercase hexadecimal.
discid_get_freedb_id(d) ==
  LET n == FreedbSum(d, d.first_track_num, d.last_track_num)
      t == (d.track_offsets[0] \div 75) - (d.track_offsets[d.first_track_num] \div 75)
      m == d.last_track_num - d.first_track_num + 1
  IN  HexField(n % 255, 2, HexLower) \o HexField(t % Limb, 4, HexLower)
        \o HexField(m % 256, 2, HexLower)

\* The text hashed for the disc ID: first and last track as two digits each
\* and the 100 slots of the handle as eight digits each, 804 characters.
IdBuffer(d) ==
  HexField(d.first_track_num, 2, HexUpper) \o HexField(d.last_track_num, 2, HexUpper)
    \o [j \in 1..800 |-> Hex8(d.track_offsets[(j - 1) \div 8], HexUpper)[((j - 1) % 8) + 1]]

\* The ASCII code of a hexadecimal digit of HexUpper.
AsciiOfHex(ch) ==
  LET v == (CHOOSE k \in 1..16 : HexUpper[k] = ch) - 1
  IN  IF v < 10 THEN 48 + v ELSE 55 + v

(***************************************************************************)
(* SHA-1 on 32-bit words held as the pair <<high, low>> of 16-bit halves.  *)
(***************************************************************************)
\* Exclusive or and conjunction of the bits of two numbers, lowest bit first.
RECURSIVE XorBits(_, _)
XorBits(a, b) ==
  IF a = 0 THEN b
  ELSE IF b = 0 THEN a
  ELSE ((a + b) % 2) + 2 * XorBits(a \div 2, b \div 2)

RECURSIVE AndBits(_, _)
AndBits(a, b) ==
  IF a = 0 \/ b = 0 THEN 0
  ELSE (a % 2) * (b % 2) + 2 * AndBits(a \div 2, b \div 2)

\* The two operations on bytes, tabulated.
XorTable == [a \in 0..255 |-> [b \in 0..255 |-> XorBits(a, b)]]

AndTable == [a \in 0..255 |-> [b \in 0..255 |-> AndBits(a, b)]]

Xor16(a, b) == XorTable[a \div 256][b \div 256] * 256 + XorTable[a % 256][b % 256]

And16(a, b) == AndTable[a \div 256][b \div 256] * 256 + AndTable[a % 256][b % 256]

Or16(a, b) == a + b - And16(a, b)

Not16(a) == Limb - 1 - a

WXor(u, v) == <<Xor16(u[1], v[1]), Xor16(u[2], v[2])>>

WAnd(u, v) == <<And16(u[1], v[1]), And16(u[2], v[2])>>

WOr(u, v) == <<Or16(u[1], v[1]), Or16(u[2], v[2])>>

WNot(u) == <<Not16(u[1]), Not16(u[2])>>

\* Addition modulo 2^32.
WAdd(u, v) ==
  LET lo == u[2] + v[2]
  IN  <<(u[1] + v[1] + (lo \div Limb)) % Limb, lo % Limb>>

Pow2(n) ==
  <<1, 2, 4, 8, 16, 32, 64, 128, 256, 512, 1024, 2048, 4096, 8192, 16384, 32768,
    65536>>[n + 1]

\* Rotation to the left by 0 < n < 16 bits.
RotlSmall(u, n) ==
  <<((u[1] * Pow2(n)) % Limb) + (u[2] \div Pow2(16 - n)),
    ((u[2] * Pow2(n)) % Limb) + (u[1] \div Pow2(16 - n))>>

\* Rotation to the left by 0 < n < 32 bits.
Rotl(u, n) ==
  IF n < 16 THEN RotlSmall(u, n)
  ELSE IF n = 16 THEN <<u[2], u[1]>>
  ELSE RotlSmall(<<u[2], u[1]>>, n - 16)

\* 67452301 EFCDAB89 98BADCFE 10325476 C3D2E1F0
ShaInit ==
  <<<<26437, 8961>>, <<61389, 43913>>, <<39098, 56574>>, <<4146, 21622>>,
    <<50130, 57840>>>>

\* 5A827999 6ED9EBA1 8F1BBCDC CA62C1D6
ShaK == <<<<23170, 31129>>, <<28377, 60321>>, <<36635, 48348>>, <<51810, 49622>>>>

\* w[t] for t >= 16, from the schedule W = w[0], ..., w[t-1].
ShaNextW(W) ==
  LET t == Len(W)
  IN  Rotl(WXor(WXor(W[t - 2], W[t - 7]), WXor(W[t - 13], W[t - 15])), 1)

\* The schedule W extended by n words, by halves.
RECURSIVE ShaExtend(_, _)
ShaExtend(W, n) ==
  IF n = 0 \/ Len(W) < 16 THEN W
  ELSE IF n = 1 THEN Append(W, ShaNextW(W))
  ELSE ShaExtend(ShaExtend(W, n \div 2), n - (n \div 2))

ShaF(t, b, c, d) ==
  IF t < 20 THEN WOr(WAnd(b, c), WAnd(WNot(b), d))
  ELSE IF t < 40 THEN WXor(WXor(b, c), d)
  ELSE IF t < 60 THEN WOr(WOr(WAnd(b, c), WAnd(b, d)), WAnd(c, d))
  ELSE WXor(WXor(b, c), d)

\* Round t on the working words s = <<a, b, c, d, e>>.
ShaRound(s, W, t) ==
  LET tmp == WAdd(WAdd(WAdd(WAdd(Rotl(s[1], 5), ShaF(t, s[2], s[3], s[4])), s[5]),
                       ShaK[(t \div 20) + 1]), W[t + 1])
  IN  <<tmp, s[1], Rotl(s[2], 30), s[3], s[4]>>

\* The rounds lo..hi, in order, by halves.
RECURSIVE ShaRounds(_, _, _, _)
ShaRounds(s, W, lo, hi) ==
  IF lo > hi \/ Len(s) # 5 THEN s
  ELSE IF lo = hi THEN ShaRound(s, W, lo)
  ELSE LET mid == (lo + hi) \div 2
       IN  ShaRounds(ShaRounds(s, W, lo, mid), W, mid + 1, hi)

\* The 16 words of block b (counted from 0) of the padded message.
ShaBlockWords(bytes, b) ==
  [k \in 1..16 |->
     LET o == 64 * b + 4 * (k - 1)
     IN  <<bytes[o + 1] * 256 + bytes[o + 2], bytes[o + 3] * 256 + bytes[o + 4]>>]

ShaBlock(h, bytes, b) ==
  LET W == ShaExtend(ShaBlockWords(bytes, b), 64)
      s == ShaRounds(h, W, 0, 79)
  IN  [k \in 1..5 |-> WAdd(h[k], s[k])]

\* The blocks lo..hi, in order, by halves.
RECURSIVE ShaBlocks(_, _, _, _)
ShaBlocks(h, bytes, lo, hi) ==
  IF lo > hi \/ Len(h) # 5 THEN h
  ELSE IF lo = hi THEN ShaBlock(h, bytes, lo)
  ELSE LET mid == (lo + hi) \div 2
       IN  ShaBlocks(ShaBlocks(h, bytes, lo, mid), bytes, mid + 1, hi)

\* The message, a byte 128, zeros and the bit length, a multiple of 64 bytes
\* (for messages below 2^21 bytes).
ShaPad(msg) ==
  LET n     == Len(msg)
      total == (((n + 8) \div 64) + 1) * 64
      bits  == n * 8
  IN  [k \in 1..total |->
         IF k <= n THEN msg[k]
         ELSE IF k = n + 1 THEN 128
         ELSE IF k = total THEN bits % 256
         ELSE IF k = total - 1 THEN (bits \div 256) % 256
         ELSE IF k = total - 2 THEN (bits \div Limb) % 256
         ELSE 0]

\* The 20 bytes of the SHA-1 digest of a sequence of bytes.
SHA1(msg) ==
  LET p == ShaPad(msg)
      h == ShaBlocks(ShaInit, p, 0, (Len(p) \div 64) - 1)
  IN  [k \in 1..20 |->
         LET w == h[((k - 1) \div 4) + 1]
             j == (k - 1) % 4
         IN  IF j = 0 THEN w[1] \div 256
             ELSE IF j = 1 THEN w[1] % 256
             ELSE IF j = 2 THEN w[2] \div 256
             ELSE w[2] % 256]

(***************************************************************************)
(* Base64 and the disc ID.                                                 *)
(***************************************************************************)
Base64Chars ==
  <<"A", "B", "C", "D", "E", "F", "G", "H", "I", "J", "K", "L", "M", "N", "O", "P",
    "Q", "R", "S", "T", "U", "V", "W", "X", "Y", "Z", "a", "b", "c", "d", "e", "f",
    "g", "h", "i", "j", "k", "l", "m", "n", "o", "p", "q", "r", "s", "t", "u", "v",
    "w", "x", "y", "z", "0", "1", "2", "3", "4", "5", "6", "7", "8", "9", "+", "/">>

\* Standard base64 with padding: four characters for every three bytes.
Base64(bytes) ==
  LET n == Len(bytes)
      B(k) == IF k <= n THEN bytes[k] ELSE 0
  IN  [j \in 1..(4 * ((n + 2) \div 3)) |->
         LET g  == (j - 1) \div 4
             b0 == B(3 * g + 1)
             b1 == B(3 * g + 2)
             b2 == B(3 * g + 3)
             q  == (j - 1) % 4
         IN  IF q = 0 THEN Base64Chars[(b0 \div 4) + 1]
             ELSE IF q = 1 THEN Base64Chars[((b0 % 4) * 16) + (b1 \div 16) + 1]
             ELSE IF q = 2
             THEN IF 3 * g + 2 > n THEN "="
                  ELSE Base64Chars[((b1 % 16) * 4) + (b2 \div 64) + 1]
             ELSE IF 3 * g + 3 > n THEN "="
                  ELSE Base64Chars[(b2 % 64) + 1]]

\* Mutant: '/' and '=' take each other's replacement.
IdChar_Swapped(ch) ==
  IF ch = "+" THEN "." ELSE IF ch = "/" THEN "-" ELSE IF ch = "=" THEN "_" ELSE ch

\* The characters of the disc ID: '.' for '+', '_' for '/' and '-' for '='.
IdChar(ch) ==
  IF ch = "+" THEN "." ELSE IF ch = "/" THEN "_" ELSE IF ch = "=" THEN "-" ELSE ch

\* The digest of the text hashed for the disc ID.
IdDigest(d) ==
  LET b == IdBuffer(d)
  IN  SHA1([j \in 1..Len(b) |-> AsciiOfHex(b[j])])

\* discid_get_id
discid_get_id(d) ==
  LET b == Base64(IdDigest(d))
  IN  [j \in 1..Len(b) |-> IdChar(b[j])]

\* The characters of s, with '+' for every space.
PlusForSpace(s) == [j \in 1..Len(s) |-> IF s[j] = " " THEN "+" ELSE s[j]]

\* discid_get_submission_url
\* "http://musicbrainz.org/cdtoc/attach"
MB_SUBMISSION_URL ==
  <<"h", "t", "t", "p", ":", "/", "/", "m", "u", "s", "i", "c", "b", "r", "a", "i",
    "n", "z", ".", "o", "r", "g", "/", "c", "d", "t", "o", "c", "/", "a", "t", "t",
    "a", "c", "h">>

\* discid_get_submission_url
discid_get_submission_url(d) ==
  MB_SUBMISSION_URL \o <<"?", "i", "d", "=">> \o discid_get_id(d)
    \o <<"&", "t", "r", "a", "c", "k", "s", "=">>
    \o FormatC(d.last_track_num - d.first_track_num + 1)
    \o <<"&", "t", "o", "c", "=">> \o PlusForSpace(discid_get_toc_string(d))

\* discid_get_mcn: no MCN is read by discid_put.
discid_get_mcn(d) == <<>>

(***************************************************************************)
(* Put.  A call's result: how it ended ("ok", "err" or "panic"), the error,*)
(* the handle it allocated (or NoHandle) with whether it was freed, and    *)
(* the native calls it made, in order.                                     *)
(***************************************************************************)
NoHandle == [alive |-> FALSE, d |-> discid_new]

Result(how, e, h, calls) == [outcome |-> how, err |-> e, native |-> h, log |-> calls]

\* track > 99 of the loop of Put.
PutBreak(t) == GoLess(GoInt(99), t)

\* Mutant: the value stored at the loop index instead of the track number.
PutStep_Untracked(st, first, i, n) ==
  LET t == GoAdd(GoInt(i), first)
  IN  IF PutBreak(t) THEN [st EXCEPT !.stop = "break"]
      ELSE IF GoLess(t, GoInt(0)) THEN [st EXCEPT !.stop = "panic"]
      ELSE [st EXCEPT !.c[i] = CInt(n)]

\* The body of the loop of Put for index i and value n of offsets[1:], on the
\* array st.c: it breaks above track 99, panics on an index below the array,
\* and stores the converted value otherwise.
PutStep(st, first, i, n) ==
  LET t == GoAdd(GoInt(i), first)
  IN  IF PutBreak(t) THEN [st EXCEPT !.stop = "break"]
      ELSE IF GoLess(t, GoInt(0)) THEN [st EXCEPT !.stop = "panic"]
      ELSE [st EXCEPT !.c[CInt(t)] = CInt(n)]

\* The loop of Put over the indices lo..hi of rest = offsets[1:], in order, by
\* halves; it ends at the break or the panic.
RECURSIVE PutFill(_, _, _, _, _)
PutFill(st, first, rest, lo, hi) ==
  IF lo > hi \/ st.stop # "run" THEN st
  ELSE IF lo = hi THEN PutStep(st, first, lo, rest[lo + 1])
  ELSE LET mid  == (lo + hi) \div 2
           left == PutFill(st, first, rest, lo, mid)
       IN  PutFill(left, first, rest, mid + 1, hi)

\* Mutant: the leadout counted as a track.
PutLast_WithLeadout(first, offsets) == GoSub(GoAdd(first, GoInt(Len(offsets))), GoInt(1))

\* last := first + len(offsets) - 2
PutLast(first, offsets) == GoSub(GoAdd(first, GoInt(Len(offsets))), GoInt(2))

\* The array c_offsets of Put when its loop ends, for offsets that hold at
\* least the leadout: slot 0 takes C.int(offsets[0]), the loop fills the rest.
c_offsets(first, offsets) ==
  PutFill([c |-> [ZeroOffsets EXCEPT ![0] = CInt(offsets[1])], stop |-> "run"],
          first, Tail(offsets), 0, Len(offsets) - 2)

Put(first, offsets) ==
  IF Len(offsets) = 0
  THEN Result("panic", NoErr, [alive |-> TRUE, d |-> discid_new], <<"discid_new">>)
  ELSE LET last == PutLast(first, offsets)
           f    == c_offsets(first, offsets)
           r    == discid_put(CInt(first), CInt(last), f.c)
       IN  IF f.stop = "panic"
           THEN Result("panic", NoErr, [alive |-> TRUE, d |-> discid_new], <<"discid_new">>)
           ELSE IF r.status = 0
           THEN Result("err", ErrorString(discid_get_error_msg(r.d), <<>>),
                       [alive |-> FALSE, d |-> r.d],
                       <<"discid_new", "discid_put", "discid_get_error_msg", "discid_free">>)
           ELSE Result("ok", NoErr, [alive |-> TRUE, d |-> r.d],
                       <<"discid_new", "discid_put">>)

(***************************************************************************)
(* ReadFeatures.                                                           *)
(***************************************************************************)
\* Mutant: Close called at once on failure, not deferred, so the handle is
\* freed before its error message is read.
ReadFeatures_CloseFirst(device, features, r) ==
  LET before == IF device # "" THEN <<"discid_new", "CString">> ELSE <<"discid_new">>
      after  == IF device # "" THEN <<"free">> ELSE <<>>
  IN  IF r.status = 0
      THEN Result("err", ErrorString(discid_get_error_msg(r.d), <<>>),
                  [alive |-> FALSE, d |-> r.d],
                  before \o <<"discid_read_sparse", "discid_free", "discid_get_error_msg">>
                    \o after)
      ELSE Result("ok", NoErr, [alive |-> TRUE, d |-> r.d],
                  before \o <<"discid_read_sparse">> \o after)

\* ReadFeatures(device, features), with r what the native read did.  The
\* deferred calls run last, the later deferred first.
ReadFeatures(device, features, r) ==
  LET before == IF device # "" THEN <<"discid_new", "CString">> ELSE <<"discid_new">>
      after  == IF device # "" THEN <<"free">> ELSE <<>>
  IN  IF r.status = 0
      THEN Result("err", ErrorString(discid_get_error_msg(r.d), <<>>),
                  [alive |-> FALSE, d |-> r.d],
                  before \o <<"discid_read_sparse", "discid_get_error_msg", "discid_free">>
                    \o after)
      ELSE Result("ok", NoErr, [alive |-> TRUE, d |-> r.d],
                  before \o <<"discid_read_sparse">> \o after)

\* Read(device): the TOC only.
Read(device, r) == ReadFeatures(device, "FeatureRead", r)

(***************************************************************************)
(* Parse.                                                                  *)
(***************************************************************************)
ZeroInts == [k \in Slots |-> GoInt(0)]

\* Mutant: the bound taken one token too far.
ParseTooMany_OffByOne(i, last) == GoLess(GoAdd(last, GoInt(3)), GoInt(i)) \/ i > 99 + 2

\* i > (last+2) || i > 99+2
ParseTooMany(i, last) == GoLess(GoAdd(last, GoInt(2)), GoInt(i)) \/ i > 99 + 2

\* Mutant: the bound checked before the token is converted.
ParseStep_BoundFirst(st, i, part) ==
  LET a == Atoi(part)
  IN  IF i >= 2 /\ ParseTooMany(i, st.last)
      THEN [st EXCEPT !.err = ErrorString("TOC string contains too many offsets (max. 100)",
                                          <<>>),
                      !.i = i]
      ELSE IF ~a.ok THEN [st EXCEPT !.err = SyntaxError(part), !.i = i]
      ELSE IF i = 0 THEN [st EXCEPT !.first = a.n, !.i = i]
      ELSE IF i = 1 THEN [st EXCEPT !.last = a.n, !.i = i]
      ELSE [st EXCEPT !.offsets[i - 2] = a.n, !.i = i]

\* The body of the loop of Parse for token i (0-based) with text part, on the
\* values st the earlier tokens left: the error it returns with, or the
\* assignment it makes.
ParseStep(st, i, part) ==
  LET a == Atoi(part)
  IN  IF ~a.ok THEN [st EXCEPT !.err = SyntaxError(part), !.i = i]
      ELSE IF i = 0 THEN [st EXCEPT !.first = a.n, !.i = i]
      ELSE IF i = 1 THEN [st EXCEPT !.last = a.n, !.i = i]
      ELSE IF ParseTooMany(i, st.last)
      THEN [st EXCEPT !.err = ErrorString("TOC string contains too many offsets (max. 100)",
                                          <<>>),
                      !.i = i]
      ELSE [st EXCEPT !.offsets[i - 2] = a.n, !.i = i]

\* Mutant: the loop goes on after an error, and a later token overwrites it.
RECURSIVE ParseLoop_NoReturn(_, _, _, _)
ParseLoop_NoReturn(parts, lo, hi, st) ==
  IF lo > hi \/ st.i < 0 THEN st
  ELSE IF lo = hi THEN ParseStep(st, lo, parts[lo + 1])
  ELSE LET mid  == (lo + hi) \div 2
           left == ParseLoop_NoReturn(parts, lo, mid, st)
       IN  ParseLoop_NoReturn(parts, mid + 1, hi, left)

\* The loop of Parse over the tokens lo..hi (0-based), in order, by halves; it
\* ends at the first error.
RECURSIVE ParseLoop(_, _, _, _)
ParseLoop(parts, lo, hi, st) ==
  IF lo > hi \/ st.err # NoErr THEN st
  ELSE IF lo = hi THEN ParseStep(st, lo, parts[lo + 1])
  ELSE LET mid  == (lo + hi) \div 2
           left == ParseLoop(parts, lo, mid, st)
       IN  ParseLoop(parts, mid + 1, hi, left)

\* Mutant: the token count is not checked.
ParseInvalid_NoCount(i, first, last) ==
  GoLess(first, GoInt(1)) \/ GoLess(last, GoInt(1)) \/ GoLess(GoInt(99), last)

\* i < 2 || first < 1 || last < 1 || last > 99
ParseInvalid(i, first, last) ==
  i < 2 \/ GoLess(first, GoInt(1)) \/ GoLess(last, GoInt(1)) \/ GoLess(GoInt(99), last)

\* Mutant: the leadout counted as a track offset.
ParseOffsetCount_WithLeadout(i) == i - 1

\* offsetCount := i - 2
ParseOffsetCount(i) == i - 2

\* trackCount := last - first + 1
ParseTrackCount(first, last) == GoAdd(GoSub(last, first), GoInt(1))

\* offsetCount < trackCount
ParseMismatch(offsetCount, trackCount) == GoLess(GoInt(offsetCount), trackCount)

\* Mutant: the slice ends one element early.
ParseSliceEnd_Short(trackCount) == trackCount

\* The upper bound trackCount+1 of the slice offsets[0:trackCount+1].
ParseSliceEnd(trackCount) == GoAdd(trackCount, GoInt(1))

Parse(toc) ==
  LET parts == Split(toc)
      l  == ParseLoop(parts, 0, Len(parts) - 1,
                       [err |-> NoErr, i |-> 0, first |-> GoInt(0), last |-> GoInt(0),
                        offsets |-> ZeroInts])
      offsetCount == ParseOffsetCount(l.i)
      trackCount  == ParseTrackCount(l.first, l.last)
      hi == ParseSliceEnd(trackCount)
  IN  IF l.err # NoErr THEN Result("err", l.err, NoHandle, <<>>)
      ELSE IF ParseInvalid(l.i, l.first, l.last)
      THEN Result("err", ErrorString("Invalid TOC string \"%v\"", <<toc>>), NoHandle, <<>>)
      ELSE IF ParseMismatch(offsetCount, trackCount)
      THEN Result("err",
                  ErrorString("Number of offsets %v does not match track count %v",
                              <<GoInt(offsetCount), trackCount>>),
                  NoHandle, <<>>)
      ELSE IF GoLess(hi, GoInt(0)) \/ GoLess(GoInt(100), hi)
      THEN Result("panic", NoErr, NoHandle, <<>>)
      ELSE Put(l.first, [k \in 1..CInt(hi) |-> l.offsets[k - 1]])

(***************************************************************************)
(* The accessors of a Disc, on the fields of its handle.                   *)
(***************************************************************************)
FirstTrackNum(d) == GoOfC(discid_get_first_track_num(d))

LastTrackNum(d) == GoOfC(discid_get_last_track_num(d))

Sectors(d) == GoOfC(discid_get_sectors(d))

TocString(d) == discid_get_toc_string(d)

Id(d) == discid_get_id(d)

FreedbId(d) == discid_get_freedb_id(d)

\* Mutant: the wrapper calls the native getter of the TOC string.
SubmissionUrl_TocString(d) == discid_get_toc_string(d)

SubmissionUrl(d) == discid_get_submission_url(d)

Mcn(d) == discid_get_mcn(d)

\* The accessors without argument, by name.
Accessors ==
  {"Id", "FreedbId", "TocString", "SubmissionUrl", "FirstTrackNum", "LastTrackNum",
   "Sectors", "Mcn"}

Accessor(op, d) ==
  CASE op = "Id" -> Id(d)
    [] op = "FreedbId" -> FreedbId(d)
    [] op = "TocString" -> TocString(d)
    [] op = "SubmissionUrl" -> SubmissionUrl(d)
    [] op = "FirstTrackNum" -> FirstTrackNum(d)
    [] op = "LastTrackNum" -> LastTrackNum(d)
    [] op = "Sectors" -> Sectors(d)
    [] op = "Mcn" -> Mcn(d)

\* No accessor was called.
NoGot == [op |-> "none"]

\* What a call of accessor op on handle h returns.  On a live handle it is
\* the value of the handle's fields.  On a handle that Close has freed the
\* native call reads released memory: it may still find the old fields, or
\* find other contents and return anything, or crash.
AccessorResults(op, h) ==
  IF h.alive
  THEN {[op |-> op, how |-> "value", value |-> Accessor(op, h.d)]}
  ELSE {[op |-> op, how |-> "stale", value |-> Accessor(op, h.d)],
        [op |-> op, how |-> "garbage"],
        [op |-> op, how |-> "crash"]}

\* Mutant: the last track taken as out of bounds.
TrackOutOfBounds_Exclusive(number, first, last) ==
  GoLess(number, first) \/ ~GoLess(number, last)

\* number < first || number > last
TrackOutOfBounds(number, first, last) == GoLess(number, first) \/ GoLess(last, number)

NoTrack == [panic |-> FALSE, called |-> FALSE]

Track(d, number) ==
  LET first == FirstTrackNum(d)
      last  == LastTrackNum(d)
      n     == CInt(number)
  IN  IF TrackOutOfBounds(number, first, last)
      THEN [panic |-> TRUE, called |-> TRUE, given |-> number,
            msg |-> "track number out of bounds: given %v, expected between %v and %v",
            args |-> <<number, first, last>>]
      ELSE [panic |-> FALSE, called |-> TRUE, given |-> number,
            Number |-> number,
            Offset |-> GoOfC(discid_get_track_offset(d, n)),
            Sectors |-> GoOfC(discid_get_track_length(d, n)),
            Isrc |-> discid_get_track_isrc(d, n)]

(***************************************************************************)
(* The inputs of the calls.                                                *)
(***************************************************************************)
\* 2^32 + n, a Go int that no C int holds.
Wide(n) == [hi |-> 1, lo |-> n]

MaxPutLen == 3

MaxParseOffsets == 4

PutFirsts == {GoInt(n) : n \in {-1, 0, 1, 2, 98, 99}} \cup {Wide(1)}

PutValues == {GoInt(n) : n \in {0, 150, 200, 1000, MAX_DISC_LENGTH + 1}} \cup {Wide(150)}

SeqsUpTo(S, n) == UNION {[1..k -> S] : k \in 0..n}

Zeros(n) == [k \in 1..n |-> GoInt(0)]

\* The offsets of TestPut.
RefOffsets ==
  [k \in 1..11 |->
     GoInt(<<206535, 150, 18901, 39738, 59557, 79152, 100126, 124833, 147278,
             166336, 182560>>[k])]

\* The offsets of ExamplePut.
ExampleOffsets ==
  [k \in 1..12 |->
     GoInt(<<242457, 150, 44942, 61305, 72755, 96360, 130485, 147315, 164275,
             190702, 205412, 220437>>[k])]

\* The calls the tests and examples make: TestPut, TestPutFirstTrackLargerOne
\* and ExamplePut.
TestPuts == {<<GoInt(1), RefOffsets>>, <<GoInt(3), RefOffsets>>, <<GoInt(1), ExampleOffsets>>}

PutInputs ==
  (PutFirsts \X SeqsUpTo(PutValues, MaxPutLen))
    \cup ((PutFirsts \cup {GoInt(82)}) \X {Zeros(20), Zeros(100), Zeros(101), RefOffsets})
    \cup TestPuts

RECURSIVE JoinRange(_, _, _)
JoinRange(ts, lo, hi) ==
  IF lo > hi THEN <<>>
  ELSE IF lo = hi THEN ts[lo]
  ELSE LET mid == (lo + hi) \div 2
       IN  JoinRange(ts, lo, mid) \o <<" ">> \o JoinRange(ts, mid + 1, hi)

\* The tokens ts with one space between each two.
Join(ts) == JoinRange(ts, 1, Len(ts))

FirstTokens == {<<"0">>, <<"1">>, <<"0", "1">>, <<"2">>, <<"4">>, <<"a">>, <<>>}

LastTokens == {<<"0">>, <<"1">>, <<"2">>, <<"3">>, <<"1", "0", "0">>}

OffsetTokens ==
  {<<"1", "5", "0">>, <<"2", "0", "0">>, <<"a">>,
   <<"4", "2", "9", "4", "9", "6", "7", "4", "4", "6">>}

\* "1 last 20000 300 ... 300" with n track offsets.
LongToc(last, n) ==
  Join(<<<<"1">>, last, <<"2", "0", "0", "0", "0">>>> \o [k \in 1..n |-> <<"3", "0", "0">>])

\* The TOC string of TestParseMinimal: "1 1 44942 150".
TocMinimal ==
  <<"1", " ", "1", " ", "4", "4", "9", "4", "2", " ", "1", "5", "0">>

\* The TOC string of TestParseFirstTrackNotOne: "3 12 242457 150 18901 39 ... 166336 182560".
TocFirstTrackNotOne ==
  <<"3", " ", "1", "2", " ", "2", "4", "2", "4", "5", "7", " ", "1", "5", "0", " ",
    "1", "8", "9", "0", "1", " ", "3", "9", "7", "3", "8", " ", "5", "9", "5", "5",
    "7", " ", "7", "9", "1", "5", "2", " ", "1", "0", "0", "1", "2", "6", " ", "1",
    "2", "4", "8", "3", "3", " ", "1", "4", "7", "2", "7", "8", " ", "1", "6", "6",
    "3", "3", "6", " ", "1", "8", "2", "5", "6", "0">>

\* The TOC string of ExampleParse: "1 11 242457 150 44942 61 ... 205412 220437".
TocExample ==
  <<"1", " ", "1", "1", " ", "2", "4", "2", "4", "5", "7", " ", "1", "5", "0", " ",
    "4", "4", "9", "4", "2", " ", "6", "1", "3", "0", "5", " ", "7", "2", "7", "5",
    "5", " ", "9", "6", "3", "6", "0", " ", "1", "3", "0", "4", "8", "5", " ", "1",
    "4", "7", "3", "1", "5", " ", "1", "6", "4", "2", "7", "5", " ", "1", "9", "0",
    "7", "0", "2", " ", "2", "0", "5", "4", "1", "2", " ", "2", "2", "0", "4", "3",
    "7">>

TestTocs == {TocMinimal, TocFirstTrackNotOne, TocExample}

ParseInputs ==
  {Join(<<f, l>> \o offs) :
     f \in FirstTokens, l \in LastTokens, offs \in SeqsUpTo(OffsetTokens, MaxParseOffsets)}
    \cup {Join(ts) : ts \in SeqsUpTo(FirstTokens, 1)}
    \cup {LongToc(l, n) : l \in {<<"9", "9">>, <<"1", "0", "0">>}, n \in {99, 100}}
    \cup TestTocs

\* The accessors called on the Disc of call c with handle h: the two that
\* hash the TOC on the discs of the tests' and examples' calls while the
\* handle lives, the others on every Disc, freed or not.
AccessorsOf(c, h) ==
  IF /\ h.alive
     /\ \/ c.op = "Put" /\ <<c.first, c.offsets>> \in TestPuts
        \/ c.op = "Parse" /\ c.toc \in TestTocs
  THEN Accessors
  ELSE Accessors \ {"Id", "SubmissionUrl"}

\* The numbers Track is called with on the disc of handle d.
TrackNumbers(d) ==
  {GoInt(n) : n \in {d.first_track_num - 1, d.first_track_num, d.first_track_num + 1,
                     d.last_track_num, d.last_track_num + 1}}
    \cup {Wide(d.first_track_num)}

(***************************************************************************)
(* The calls.                                                              *)
(***************************************************************************)
Init ==
  /\ call = [op |-> "none"]
  /\ outcome = "none"
  /\ disc = "nil"
  /\ err = NoErr
  /\ native = NoHandle
  /\ log = <<>>
  /\ track = NoTrack
  /\ got = NoGot

\* The Disc a construction call returns: it holds the handle only when the
\* call returned without error, and is the zero Disc otherwise.
ReturnedDisc(r) == IF r.outcome = "ok" THEN "handle" ELSE "nil"

\* The caller makes a construction call when it holds no result of an earlier
\* one (Discard drops it); the calls share no state, so this orders nothing.
PutCall ==
  /\ call.op = "none"
  /\ \E in \in PutInputs :
    LET r == Put(in[1], in[2])
    IN  /\ call' = [op |-> "Put", first |-> in[1], offsets |-> in[2]]
        /\ outcome' = r.outcome
        /\ disc' = ReturnedDisc(r)
        /\ err' = r.err
        /\ native' = r.native
        /\ log' = r.log
        /\ track' = NoTrack
        /\ got' = NoGot

\* The fields of a handle after a successful read: those of a disc of ten
\* tracks and of a disc of one track.
DriveDiscs ==
  {Put(GoInt(1), RefOffsets).native.d,
   Put(GoInt(1), <<GoInt(1000), GoInt(150)>>).native.d}

\* discid_read_sparse(d, device, features): what the drive holds is the
\* environment's choice, so the read fails or succeeds with the TOC of the
\* disc in the drive; a device that does not exist cannot be read.
discid_read_sparse(device, features) ==
  {[status |-> 0, d |-> [discid_new EXCEPT !.error_msg = "cannot open device"]]}
    \cup (IF device = "notadevice" THEN {}
          ELSE {[status |-> 1, d |-> dd] : dd \in DriveDiscs})

\* The devices and features of the calls: the default device, the device of
\* TestReadInvalidDevice and that of the examples.
Devices == {"", "notadevice", "/dev/cdrom"}

Features == {"FeatureRead", "FeatureRead|FeatureMcn"}

ReadFeaturesCall ==
  /\ call.op = "none"
  /\ \E device \in Devices, features \in Features :
       \E nr \in discid_read_sparse(device, features) :
         LET r == IF features = "FeatureRead" THEN Read(device, nr)
                  ELSE ReadFeatures(device, features, nr)
         IN  /\ call' = [op |-> "ReadFeatures", device |-> device, features |-> features]
             /\ outcome' = r.outcome
             /\ disc' = ReturnedDisc(r)
             /\ err' = r.err
             /\ native' = r.native
             /\ log' = r.log
             /\ track' = NoTrack
             /\ got' = NoGot

ParseCall ==
  /\ call.op = "none"
  /\ \E toc \in ParseInputs :
    LET r == Parse(toc)
    IN  /\ call' = [op |-> "Parse", toc |-> toc]
        /\ outcome' = r.outcome
        /\ disc' = ReturnedDisc(r)
        /\ err' = r.err
        /\ native' = r.native
        /\ log' = r.log
        /\ track' = NoTrack
        /\ got' = NoGot

TrackCall ==
  /\ disc = "handle"
  /\ native.alive
  /\ \E number \in TrackNumbers(native.d) : track' = Track(native.d, number)
  /\ got' = NoGot
  /\ UNCHANGED <<call, outcome, disc, err, native, log>>

\* A call of an accessor on the Disc or a copy of it: every copy holds the
\* same handle.
AccessorCall ==
  /\ disc = "handle"
  /\ \E op \in AccessorsOf(call, native) : got' \in AccessorResults(op, native)
  /\ track' = NoTrack
  /\ UNCHANGED <<call, outcome, disc, err, native, log>>

\* Mutant: Close clears the fields of the handle and leaves it in use.
CloseCall_Clears ==
  /\ disc = "handle"
  /\ native.alive
  /\ native' = [native EXCEPT !.d = discid_new]
  /\ log' = Append(log, "discid_free")
  /\ UNCHANGED <<call, outcome, disc, err, track, got>>

CloseCall ==
  /\ disc = "handle"
  /\ native.alive
  /\ native' = [native EXCEPT !.alive = FALSE]
  /\ log' = Append(log, "discid_free")
  /\ UNCHANGED <<call, outcome, disc, err, track, got>>

\* The caller drops what the last call returned.
Discard ==
  /\ call.op # "none"
  /\ call' = [op |-> "none"]
  /\ outcome' = "none"
  /\ disc' = "nil"
  /\ err' = NoErr
  /\ native' = NoHandle
  /\ log' = <<>>
  /\ track' = NoTrack
  /\ got' = NoGot

Next == PutCall \/ ParseCall \/ ReadFeaturesCall \/ TrackCall \/ AccessorCall \/ CloseCall \/ Discard

Spec == Init /\ [][Next]_vars

(***************************************************************************)
(* Vocabulary of the claims about Parse.                                   *)
(***************************************************************************)
IsDigit(ch) == \E d \in 1..10 : DigitChars[d] = ch

\* An optional sign and at least one digit: what strconv.Atoi accepts.
IsInteger(tok) ==
  LET body == IF Len(tok) > 0 /\ (tok[1] = "-" \/ tok[1] = "+") THEN Tail(tok) ELSE tok
  IN  Len(body) > 0 /\ \A k \in 1..Len(body) : IsDigit(body[k])

\* Digits only, no sign and no leading zero: what %d prints of a value >= 0.
IsCanonical(tok) ==
  /\ Len(tok) > 0
  /\ \A k \in 1..Len(tok) : IsDigit(tok[k])
  /\ (Len(tok) > 1 => tok[1] # "0")

\* The value of an integer token.
Value(tok) == Atoi(tok).n

\* i > last+2 or i > 101, for the 0-based token index i.
OverBound(parts, i) ==
  GoLess(GoAdd(Value(parts[2]), GoInt(2)), GoInt(i)) \/ i > 101

\* The 0-based indices of the offset tokens that cross the bound.
OverBoundAt(parts) == {i \in 2..(Len(parts) - 1) : OverBound(parts, i)}

\* The 0-based indices of the tokens that are no integers.
MalformedAt(parts) == {i \in 0..(Len(parts) - 1) : ~IsInteger(parts[i + 1])}

Min(S) == CHOOSE x \in S : \A y \in S : x <= y

TooManyOffsets == ErrorString("TOC string contains too many offsets (max. 100)", <<>>)

\* Canonical tokens, 1 <= first <= last <= 99 and exactly last-first+1 track
\* offsets after the leadout.
WellFormed(parts) ==
  /\ Len(parts) >= 4
  /\ \A k \in 1..Len(parts) : IsCanonical(parts[k])
  /\ ~GoLess(Value(parts[1]), GoInt(1))
  /\ ~GoLess(Value(parts[2]), Value(parts[1]))
  /\ ~GoLess(GoInt(99), Value(parts[2]))
  /\ GoInt(Len(parts) - 3) = GoAdd(GoSub(Value(parts[2]), Value(parts[1])), GoInt(1))

\* The leadout is at most 90 minutes and the track offsets, in track order,
\* never decrease and never exceed the leadout.
OffsetsInRange(parts) ==
  /\ ~GoLess(GoInt(MAX_DISC_LENGTH), Value(parts[3]))
  /\ \A k \in 4..Len(parts) : ~GoLess(Value(parts[3]), Value(parts[k]))
  /\ \A k \in 5..Len(parts) : ~GoLess(Value(parts[k]), Value(parts[k - 1]))

(***************************************************************************)
(* C1.  Round trip.                                                        *)
(***************************************************************************)
\* C1 as stated: for every well-formed canonical TOC string s, Parse(s)
\* succeeds and TocString() of the Disc equals s.
C1_RoundTripAnyOffsets ==
  (call.op = "Parse" /\ WellFormed(Split(call.toc)))
    => (outcome = "ok" /\ TocString(native.d) = call.toc)

\* C1, amended: for every well-formed canonical TOC string s whose leadout is
\* at most 405000 sectors and whose track offsets never decrease and never
\* exceed the leadout, Parse(s) succeeds and TocString() of the Disc equals s.
C1_RoundTrip ==
  (call.op = "Parse" /\ WellFormed(Split(call.toc)) /\ OffsetsInRange(Split(call.toc)))
    => (outcome = "ok" /\ disc = "handle" /\ err = NoErr /\ TocString(native.d) = call.toc)

\* A canonical string whose first track is 2 and which has two tracks was
\* parsed and rendered back.
C1_Witness ==
  /\ call.op = "Parse"
  /\ WellFormed(Split(call.toc))
  /\ OffsetsInRange(Split(call.toc))
  /\ outcome = "ok"
  /\ native.d.first_track_num = 2
  /\ native.d.last_track_num = 3
  /\ TocString(native.d) = call.toc

(***************************************************************************)
(* C2.  Put's track limits.                                                *)
(***************************************************************************)
\* C2: Put fails with "Illegal track limits" and returns the zero Disc whenever
\* len(offsets)-1 > 99 or first + (len(offsets)-1) - 1 > 99 (offsets holding
\* at least the leadout).
C2_IllegalTrackLimits ==
  (/\ call.op = "Put"
   /\ Len(call.offsets) >= 1
   /\ \/ Len(call.offsets) - 1 > 99
      \/ GoLess(GoInt(99), GoSub(GoAdd(call.first, GoInt(Len(call.offsets) - 1)), GoInt(1))))
    => (outcome = "err" /\ err = ErrorString("Illegal track limits", <<>>) /\ disc = "nil")

(***************************************************************************)
(* C3.  Too many offsets.                                                  *)
(***************************************************************************)
\* C3 as stated: Parse fails with TooManyOffsets at the first token whose index
\* i satisfies i > last+2 or i > 101, as soon as that token is reached (the
\* tokens before it are integers).
C3_TooManyWhenReached ==
  (/\ call.op = "Parse"
   /\ OverBoundAt(Split(call.toc)) # {}
   /\ \A j \in MalformedAt(Split(call.toc)) : j >= Min(OverBoundAt(Split(call.toc))))
    => (outcome = "err" /\ err = TooManyOffsets)

\* C3, amended: Parse fails with TooManyOffsets at the first token whose index
\* i satisfies i > last+2 or i > 101, provided that token and every token
\* before it is an integer; the tokens after it are not examined.
C3_TooMany ==
  (/\ call.op = "Parse"
   /\ OverBoundAt(Split(call.toc)) # {}
   /\ \A j \in MalformedAt(Split(call.toc)) : j > Min(OverBoundAt(Split(call.toc))))
    => (outcome = "err" /\ err = TooManyOffsets /\ disc = "nil")

\* TooManyOffsets was returned for an input with a malformed token after the
\* token that crossed the bound: the error did not wait for the end of input.
C3_Witness ==
  /\ call.op = "Parse"
  /\ err = TooManyOffsets
  /\ OverBoundAt(Split(call.toc)) # {}
  /\ \E j \in MalformedAt(Split(call.toc)) : j > Min(OverBoundAt(Split(call.toc)))

(***************************************************************************)
(* C4.  Offset count mismatch.                                             *)
(***************************************************************************)
\* Every token is an integer and none crosses the bound.
AllAccepted(parts) == MalformedAt(parts) = {} /\ OverBoundAt(parts) = {}

\* N: the tokens after the leadout.
TrackTokens(parts) == IF Len(parts) > 3 THEN Len(parts) - 3 ELSE 0

\* M = last - first + 1
ImpliedTracks(parts) == GoAdd(GoSub(Value(parts[2]), Value(parts[1])), GoInt(1))

Mismatch(n, m) ==
  ErrorString("Number of offsets %v does not match track count %v", <<GoInt(n), m>>)

InvalidTocString(toc) == ErrorString("Invalid TOC string \"%v\"", <<toc>>)

\* C5 as stated: Parse fails with InvalidTocString whenever the input has
\* fewer than 4 tokens.
C5_InvalidBelowFour ==
  (call.op = "Parse" /\ Len(Split(call.toc)) < 4)
    => (outcome = "err" /\ err = InvalidTocString(call.toc))

\* C5, amended: Parse fails with InvalidTocString whenever the input has fewer
\* than 3 tokens and each of them is an integer.
C5_InvalidBelowThree ==
  (call.op = "Parse" /\ Len(Split(call.toc)) < 3 /\ MalformedAt(Split(call.toc)) = {})
    => (outcome = "err" /\ disc = "nil" /\ err = InvalidTocString(call.toc))

\* An input of two integer tokens, a valid first and last, was rejected.
C5_Witness ==
  /\ call.op = "Parse"
  /\ Len(Split(call.toc)) = 2
  /\ MalformedAt(Split(call.toc)) = {}
  /\ Value(Split(call.toc)[1]) = GoInt(1)
  /\ Value(Split(call.toc)[2]) = GoInt(1)
  /\ err = InvalidTocString(call.toc)

(***************************************************************************)
(* C6.  Malformed numbers.                                                 *)
(***************************************************************************)
\* C6 as stated: Parse fails with the integer-syntax error carrying the
\* offending token whenever any token is not an integer.
C6_SyntaxErrorAlways ==
  (call.op = "Parse" /\ MalformedAt(Split(call.toc)) # {})
    => (outcome = "err" /\ err.kind = "NumError" /\ err.Err = "ErrSyntax"
        /\ \E i \in MalformedAt(Split(call.toc)) : err.Num = Split(call.toc)[i + 1])

\* C6, amended: Parse fails with the integer-syntax error carrying the first
\* token that is not an integer, provided no token before it crosses the
\* offset bound (i > last+2 or i > 101).
C6_SyntaxError ==
  (/\ call.op = "Parse"
   /\ MalformedAt(Split(call.toc)) # {}
   /\ \A j \in OverBoundAt(Split(call.toc)) : j >= Min(MalformedAt(Split(call.toc))))
    => (outcome = "err" /\ disc = "nil"
        /\ err = SyntaxError(Split(call.toc)[Min(MalformedAt(Split(call.toc))) + 1]))

\* The empty input failed with the syntax error of its one, empty, token.
C6_Witness ==
  /\ call.op = "Parse"
  /\ call.toc = <<>>
  /\ err = SyntaxError(<<>>)

(***************************************************************************)
(* C7.  Track out of range.                                                *)
(***************************************************************************)
\* C7: on a constructed Disc, Track(n) panics if and only if
\* n < FirstTrackNum() or n > LastTrackNum(); it panics just outside the two
\* ends and returns a Track at both of them.
C7_TrackOutOfRange ==
  track.called =>
    /\ track.panic <=> (\/ track.given.hi # 0
                        \/ track.given.lo < native.d.first_track_num
                        \/ track.given.lo > native.d.last_track_num)
    /\ track.given = FirstTrackNum(native.d) => ~track.panic
    /\ track.given = LastTrackNum(native.d) => ~track.panic
    /\ track.given = GoAdd(LastTrackNum(native.d), GoInt(1)) => track.panic
    /\ track.given = GoSub(FirstTrackNum(native.d), GoInt(1)) => track.panic
    /\ track.panic => (outcome = "ok" /\ err = NoErr)

\* Track(LastTrackNum() + 1) panicked on a disc of more than one track.
C7_Witness ==
  /\ track.called
  /\ track.panic
  /\ native.d.first_track_num < native.d.last_track_num
  /\ track.given = GoInt(native.d.last_track_num + 1)

(***************************************************************************)
(* C8.  Track view consistency.                                            *)
(***************************************************************************)
\* offsets[k] of the call, k counted from 0 as in Go.
Arg(k) == call.offsets[k + 1]

\* The last track number first + len(offsets) - 2 of the arguments.
ArgLast == GoSub(GoAdd(call.first, GoInt(Len(call.offsets))), GoInt(2))

\* C8: after a successful Put(first, offsets), for every n in [first, last]:
\* Track(n).Number = n, Track(n).Offset = offsets[n-first+1], Track(n).Sectors
\* is the next track's offset (the leadout for the last track) minus it, and
\* Track(n).Isrc is empty.
C8_TrackView ==
  (/\ call.op = "Put"
   /\ outcome = "ok"
   /\ track.called
   /\ ~GoLess(track.given, call.first)
   /\ ~GoLess(ArgLast, track.given))
    => LET k == CInt(GoSub(track.given, call.first)) + 1
       IN  /\ ~track.panic
           /\ track.Number = track.given
           /\ track.Offset = Arg(k)
           /\ track.Sectors =
                GoSub(IF track.given = ArgLast THEN Arg(0) ELSE Arg(k + 1), Arg(k))
           /\ track.Isrc = ""

(***************************************************************************)
(* C9.  What a successful Put reports.                                     *)
(***************************************************************************)
\* C9: after a successful Put(first, offsets), FirstTrackNum() = first,
\* LastTrackNum() = first + len(offsets) - 2 and Sectors() = offsets[0], for
\* every Go int: no value is wrapped modulo 2^32.
C9_PutReportsArguments ==
  (call.op = "Put" /\ outcome = "ok")
    => /\ FirstTrackNum(native.d) = call.first
       /\ LastTrackNum(native.d) = ArgLast
       /\ Sectors(native.d) = Arg(0)

(***************************************************************************)
(* C10.  The two construction paths.                                       *)
(***************************************************************************)
\* "first last leadout o1 ... on" of the arguments of Put.
CanonicalToc(first, offsets) ==
  Join(<<FormatGo(first),
         FormatGo(GoSub(GoAdd(first, GoInt(Len(offsets))), GoInt(2)))>>
       \o [k \in 1..Len(offsets) |-> FormatGo(offsets[k])])

\* C10: for every (first, offsets) that Put accepts, Parse of the canonical
\* string "first last leadout o1 ... on" succeeds and yields a Disc of the
\* same first track, last track, leadout and track offsets.
C10_PathsConverge ==
  (call.op = "Put" /\ outcome = "ok")
    => LET p == Parse(CanonicalToc(call.first, call.offsets))
       IN  p.outcome = "ok" /\ p.native.d = native.d

(***************************************************************************)
(* C11.  Every Disc returned without error.                                *)
(***************************************************************************)
\* The slots of the handle that hold a track offset: those of the tracks
\* first..last.
TrackSlots(d) == {k \in Slots : d.first_track_num <= k /\ k <= d.last_track_num}

\* C11: every Disc that Put or Parse returns with a nil error, after any
\* sequence of construction calls, has 1 <= FirstTrackNum() <= LastTrackNum()
\* <= 99 and holds exactly LastTrackNum() - FirstTrackNum() + 1 track offsets:
\* its TOC string lists that many after the leadout, no slot outside the
\* tracks holds one, and a Disc of Put holds one for each offset after the
\* leadout that Put was given.
C11_ReturnedDisc ==
  (outcome = "ok" /\ disc = "handle")
    => LET first == FirstTrackNum(native.d)
           last  == LastTrackNum(native.d)
           count == GoAdd(GoSub(last, first), GoInt(1))
       IN  /\ ~GoLess(first, GoInt(1))
           /\ ~GoLess(last, first)
           /\ ~GoLess(GoInt(99), last)
           /\ GoInt(Cardinality(TrackSlots(native.d))) = count
           /\ GoInt(Len(Split(TocString(native.d))) - 3) = count
           /\ \A k \in Slots \ (TrackSlots(native.d) \cup {0}) :
                native.d.track_offsets[k] = 0
           /\ (call.op = "Put" => GoInt(Len(call.offsets) - 1) = count)

\* A Disc of the tracks 2..3 was returned after an earlier call was dropped.
C11_Witness ==
  /\ outcome = "ok"
  /\ disc = "handle"
  /\ native.d.first_track_num = 2
  /\ native.d.last_track_num = 3
  /\ native.d.track_offsets[3] > 0

(***************************************************************************)
(* C12.  Surplus offset tokens.                                            *)
(***************************************************************************)
\* C12: Parse returns a Disc only when the number of track-offset tokens (the
\* tokens after the leadout) equals last - first + 1; no surplus token is
\* discarded to build a Disc.
C12_NoSurplusDiscarded ==
  (call.op = "Parse" /\ outcome = "ok")
    => GoInt(TrackTokens(Split(call.toc))) = ImpliedTracks(Split(call.toc))

(***************************************************************************)
(* Vocabulary of the claims about the identifiers: the TOC a call gives.   *)
(***************************************************************************)
\* The first track and the offsets (leadout first) that the call gives: the
\* arguments of Put, or the values of the tokens of Parse.
CallToc ==
  IF call.op = "Put" THEN [first |-> call.first, offsets |-> call.offsets]
  ELSE LET parts == Split(call.toc)
       IN  [first |-> Value(parts[1]),
            offsets |-> [k \in 1..(Len(parts) - 2) |-> Value(parts[k + 2])]]

\* The call gives a TOC and nothing else: Put with a first track and offsets
\* that C ints hold, or Parse of a well-formed string; and it was accepted.
GivesValidToc ==
  /\ outcome = "ok"
  /\ \/ /\ call.op = "Put"
        /\ call.first.hi = 0
        /\ \A k \in 1..Len(call.offsets) : call.offsets[k].hi = 0
     \/ /\ call.op = "Parse"
        /\ WellFormed(Split(call.toc))
        /\ \A k \in 1..Len(Split(call.toc)) : Value(Split(call.toc)[k]).hi = 0

\* The offset of track n of the TOC t, and its last track.
TocOffset(t, n) == t.offsets[n - t.first.lo + 2].lo

TocLast(t) == t.first.lo + Len(t.offsets) - 2

\* An accessor returned a value from a live handle.
Got(op) == got.op = op /\ got.how = "value"

(***************************************************************************)
(* C13.  The FreeDB ID.                                                    *)
(***************************************************************************)
\* The sum of the decimal digits of n, from its decimal text.
DigitSum(n) ==
  LET ds == NatDigits(n)
      RECURSIVE Total(_)
      Total(k) == IF k = 0 THEN 0 ELSE DigitVal(ds[k]) + Total(k - 1)
  IN  Total(Len(ds))

\* The digit sums of floor(offset / 75) of the tracks lo..hi of t, by halves.
RECURSIVE DigitSums(_, _, _)
DigitSums(t, lo, hi) ==
  IF lo > hi THEN 0
  ELSE IF lo = hi THEN DigitSum(TocOffset(t, lo) \div 75)
  ELSE LET mid == (lo + hi) \div 2
       IN  DigitSums(t, lo, mid) + DigitSums(t, mid + 1, hi)

\* checksum * 2^24 + totalSeconds * 2^8 + trackCount modulo 2^32, as eight
\* lowercase hexadecimal digits (the value by its 16-bit halves).
FreedbOf(t) ==
  LET checksum     == DigitSums(t, t.first.lo, TocLast(t)) % 255
      totalSeconds == (t.offsets[1].lo \div 75) - (TocOffset(t, t.first.lo) \div 75)
      trackCount   == TocLast(t) - t.first.lo + 1
      low          == totalSeconds * 256 + trackCount
      high         == checksum * 256 + (low \div Limb)
  IN  HexField(high % Limb, 4, HexLower) \o HexField(low % Limb, 4, HexLower)

BufferField(b, k) == SubSeq(b, 5 + 8 * k, 12 + 8 * k)

\* The disc ID of a hashed text.
IdOfText(b) ==
  LET e == Base64(SHA1([j \in 1..Len(b) |-> AsciiOfHex(b[j])]))
  IN  [j \in 1..Len(e) |-> IdChar(e[j])]

\* C14 as stated: for every valid TOC the hashed text is exactly 804
\* uppercase hex characters, 2 for the first track, 2 for the last, then 100
\* fields of 8 digits: field 0 the leadout, fields 1, 2, ... the offsets of
\* the tracks first..last in order, and every remaining field zero.
C14_FieldsInOrder ==
  (GivesValidToc /\ native.alive)
    => LET b == IdBuffer(native.d)
           t == CallToc
       IN  /\ Len(b) = 804
           /\ \A j \in 1..Len(b) : \E h \in 1..16 : HexUpper[h] = b[j]
           /\ SubSeq(b, 1, 2) = HexField(t.first.lo, 2, HexUpper)
           /\ SubSeq(b, 3, 4) = HexField(TocLast(t), 2, HexUpper)
           /\ \A k \in 0..99 :
                BufferField(b, k) =
                  HexField(IF k < Len(t.offsets) THEN t.offsets[k + 1].lo ELSE 0,
                           8, HexUpper)

\* The hashed text of the TOC t with the offset of track k in field k.
TextByTrack(t) ==
  HexField(t.first.lo, 2, HexUpper) \o HexField(TocLast(t), 2, HexUpper)
    \o [j \in 1..800 |->
          LET k == (j - 1) \div 8
              v == IF k = 0 THEN t.offsets[1].lo
                   ELSE IF t.first.lo <= k /\ k <= TocLast(t) THEN TocOffset(t, k)
                   ELSE 0
          IN  HexField(v, 8, HexUpper)[((j - 1) % 8) + 1]]

\* C14, amended: the hashed text is exactly 804 uppercase hex characters, 2
\* for the first track, 2 for the last, then 100 fields of 8 digits: field 0
\* is the leadout, field k is the offset of track k for first <= k <= last,
\* and every other field (below the first track and above the last) is zero;
\* the ID of TestPutFirstTrackLargerOne is the ID of that text.
C14_FieldsByTrack ==
  /\ (GivesValidToc /\ native.alive)
       => LET b == IdBuffer(native.d)
          IN  /\ Len(b) = 804
              /\ \A j \in 1..Len(b) : \E h \in 1..16 : HexUpper[h] = b[j]
              /\ b = TextByTrack(CallToc)
  /\ (Got("Id") /\ call.op = "Put" /\ call.first = GoInt(3) /\ call.offsets = RefOffsets)
       => /\ got.value = IdOfText(TextByTrack(CallToc))
          /\ got.value = 
              <<"B", "y", "B", "K", "v", "J", "M", "1", "h", "B", "L", "7", "X", "t", "v", "s", "P", "y", "Y", "t", "I", "j", "l", "X", "0", "B", "w", "-">>

\* Id() was called on the Disc of TestPutFirstTrackLargerOne: its text has
\* zero in the fields 1 and 2 and the offset of track 3 in field 3.
C14_Witness ==
  /\ Got("Id")
  /\ call.op = "Put"
  /\ call.first = GoInt(3)
  /\ call.offsets = RefOffsets
  /\ BufferField(IdBuffer(native.d), 1) = HexField(0, 8, HexUpper)
  /\ BufferField(IdBuffer(native.d), 3) = HexField(150, 8, HexUpper)
  /\ got.value =
       <<"B", "y", "B", "K", "v", "J", "M", "1", "h", "B", "L", "7", "X", "t", "v", "s", "P", "y", "Y", "t", "I", "j", "l", "X", "0", "B", "w", "-">>

(***************************************************************************)
(* C15.  The encoding of the disc ID.                                      *)
(***************************************************************************)
\* The IDs the tests and examples expect of their calls.
ExpectedIds ==
  {<<[op |-> "Put", first |-> GoInt(1), offsets |-> RefOffsets],
     <<"W", "n", "8", "e", "R", "B", "t", "f", "L", "D", "f", "M", "0", "q", "j", "Y", "P", "d", "x", "r", "z", ".", "Z", "j", "s", "_", "U", "-">>>>,
   <<[op |-> "Put", first |-> GoInt(3), offsets |-> RefOffsets],
     <<"B", "y", "B", "K", "v", "J", "M", "1", "h", "B", "L", "7", "X", "t", "v", "s", "P", "y", "Y", "t", "I", "j", "l", "X", "0", "B", "w", "-">>>>,
   <<[op |-> "Put", first |-> GoInt(1), offsets |-> ExampleOffsets],
     <<"l", "S", "O", "V", "c", "5", "h", "6", "I", "X", "S", "u", "z", "c", "a", "m", "J", "S", "1", "G", "p", "4", "_", "t", "R", "u", "A", "-">>>>,
   <<[op |-> "Parse", toc |-> TocExample],
     <<"l", "S", "O", "V", "c", "5", "h", "6", "I", "X", "S", "u", "z", "c", "a", "m", "J", "S", "1", "G", "p", "4", "_", "t", "R", "u", "A", "-">>>>,
   <<[op |-> "Parse", toc |-> TocMinimal],
     <<"A", "N", "J", "a", "4", "D", "G", "Y", "N", "_", "k", "t", "p", "z", "O", "w", "v", "V", "P", "t", "c", "j", "w", "P", "7", "m", "E", "-">>>>,
   <<[op |-> "Parse", toc |-> TocFirstTrackNotOne],
     <<"f", "C", "1", "y", "N", "b", "C", "5", "b", "V", "j", "b", "v", "p", "h", "q", "l", "A", "Y", "9", "J", "y", "Y", "o", "W", "E", "Y", "-">>>>}

\* The characters of s with x in place of '+', y of '/' and z of '='.
Replaced(s, x, y, z) ==
  [j \in 1..Len(s) |->
     IF s[j] = "+" THEN x ELSE IF s[j] = "/" THEN y ELSE IF s[j] = "=" THEN z ELSE s[j]]

\* C15 as stated: Id() is the standard padded base64 encoding of the 20-byte
\* digest with '.' for every '+', '-' for every '/' and '_' for every '=',
\* always 28 characters, and the reference IDs are outputs of this mapping.
C15_IdAsStated ==
  Got("Id")
    => /\ Len(got.value) = 28
       /\ got.value = Replaced(Base64(IdDigest(native.d)), ".", "-", "_")
       /\ \A e \in ExpectedIds : call = e[1] => got.value = e[2]

\* C15, amended: Id() is the standard padded base64 encoding of the 20-byte
\* digest with '.' for every '+', '_' for every '/' and '-' for every '=',
\* always 28 characters of which the last is the '-' of the padding, and the
\* reference IDs of the tests are outputs of this mapping.
C15_Id ==
  Got("Id")
    => /\ Len(IdDigest(native.d)) = 20
       /\ Len(got.value) = 28
       /\ got.value[28] = "-"
       /\ got.value = Replaced(Base64(IdDigest(native.d)), ".", "_", "-")
       /\ \A e \in ExpectedIds : call = e[1] => got.value = e[2]

\* Id() was called on the Disc of TestPut; its ID has a '.', a '_' and the
\* final '-'.
C15_Witness ==
  /\ Got("Id")
  /\ call = [op |-> "Put", first |-> GoInt(1), offsets |-> RefOffsets]
  /\ got.value =
       <<"W", "n", "8", "e", "R", "B", "t", "f", "L", "D", "f", "M", "0", "q", "j", "Y", "P", "d", "x", "r", "z", ".", "Z", "j", "s", "_", "U", "-">>
  /\ \E j \in 1..27 : Base64(IdDigest(native.d))[j] = "+"
  /\ \E j \in 1..27 : Base64(IdDigest(native.d))[j] = "/"

(***************************************************************************)
(* C16.  The submission URL.                                               *)
(***************************************************************************)
\* "http://musicbrainz.org/cdtoc/attach?id="
UrlHead ==
  <<"h", "t", "t", "p", ":", "/", "/", "m", "u", "s", "i", "c", "b", "r", "a", "i",
    "n", "z", ".", "o", "r", "g", "/", "c", "d", "t", "o", "c", "/", "a", "t", "t",
    "a", "c", "h", "?", "i", "d", "=">>

\* The URL TestPut expects.
UrlOfTestPut ==
  <<"h", "t", "t", "p", ":", "/", "/", "m", "u", "s", "i", "c", "b", "r", "a", "i",
    "n", "z", ".", "o", "r", "g", "/", "c", "d", "t", "o", "c", "/", "a", "t", "t",
    "a", "c", "h", "?", "i", "d", "=", "W", "n", "8", "e", "R", "B", "t", "f", "L",
    "D", "f", "M", "0", "q", "j", "Y", "P", "d", "x", "r", "z", ".", "Z", "j", "s",
    "_", "U", "-", "&", "t", "r", "a", "c", "k", "s", "=", "1", "0", "&", "t", "o",
    "c", "=", "1", "+", "1", "0", "+", "2", "0", "6", "5", "3", "5", "+", "1", "5",
    "0", "+", "1", "8", "9", "0", "1", "+", "3", "9", "7", "3", "8", "+", "5", "9",
    "5", "5", "7", "+", "7", "9", "1", "5", "2", "+", "1", "0", "0", "1", "2", "6",
    "+", "1", "2", "4", "8", "3", "3", "+", "1", "4", "7", "2", "7", "8", "+", "1",
    "6", "6", "3", "3", "6", "+", "1", "8", "2", "5", "6", "0">>

Count(s, x) == Cardinality({k \in 1..Len(s) : s[k] = x})

\* C17: every handle allocated by ReadFeatures or Put (also for Read and
\* Parse, which call them) is, on every exit path of the call, either handed
\* to the caller in the returned Disc or freed exactly once before the call
\* ends: a handle no Disc holds is freed, and a handle is freed once when it
\* is no longer live and not at all while it is.
C17_ReturnedOrFreed ==
  (call.op \in {"Put", "Parse", "ReadFeatures"} /\ Count(log, "discid_new") > 0)
    => /\ Count(log, "discid_new") = 1
       /\ disc = "handle" \/ ~native.alive
       /\ Count(log, "discid_free") = (IF native.alive THEN 0 ELSE 1)

(***************************************************************************)
(* C18.  Accessors under interleaved calls.                                *)
(***************************************************************************)
\* The fields the handle of the call's Disc had when the call returned it.
Constructed ==
  IF call.op = "Put" THEN {Put(call.first, call.offsets).native.d}
  ELSE IF call.op = "Parse" THEN {Parse(call.toc).native.d}
  ELSE DriveDiscs

OffendingAt(parts) == MalformedAt(parts) \cup OverBoundAt(parts)

\* The error of the first offending token: the syntax error if the token is
\* no integer, TooManyOffsets otherwise.
FirstOffence(parts) ==
  LET i == Min(OffendingAt(parts))
  IN  IF i \in MalformedAt(parts) THEN SyntaxError(parts[i + 1]) ELSE TooManyOffsets

\* Too few tokens, first < 1, last < 1 or last > 99.
EndInvalid(parts) ==
  \/ Len(parts) < 3
  \/ GoLess(Value(parts[1]), GoInt(1))
  \/ GoLess(Value(parts[2]), GoInt(1))
  \/ GoLess(GoInt(99), Value(parts[2]))

\* The error Parse itself returns for the tokens parts of toc, NoErr if none.
ParseError(parts, toc) ==
  IF OffendingAt(parts) # {} THEN FirstOffence(parts)
  ELSE IF EndInvalid(parts) THEN InvalidTocString(toc)
  ELSE IF GoLess(GoInt(TrackTokens(parts)), ImpliedTracks(parts))
  THEN Mismatch(TrackTokens(parts), ImpliedTracks(parts))
  ELSE NoErr

\* The errors that come from Parse's own checks.
IsParseError(e) ==
  \/ e.kind = "NumError"
  \/ /\ e.kind = "errorString"
     /\ e.msg \in {"TOC string contains too many offsets (max. 100)",
                   "Invalid TOC string \"%v\"",
                   "Number of offsets %v does not match track count %v"}

\* C19: Parse reports the error of the first offending token, left to right,
\* and examines no later token: a token that is no integer gives the syntax
\* error before any bound check, otherwise from token 2 on the bound check
\* (i > last+2 or i > 101) gives TooManyOffsets; only when every token passes
\* are the end-of-input checks applied, InvalidTocString first and
\* OffsetCountMismatch second.
C19_FirstOffendingToken ==
  call.op = "Parse"
    => IF ParseError(Split(call.toc), call.toc) # NoErr
       THEN outcome = "err" /\ disc = "nil" /\ err = ParseError(Split(call.toc), call.toc)
       ELSE ~IsParseError(err)

\* TooManyOffsets was returned at token 4 of an input of integers whose first
\* track is 0 and which has a fifth token: neither the later token nor the
\* end-of-input checks were reached.
C19_Witness ==
  /\ call.op = "Parse"
  /\ err = TooManyOffsets
  /\ Len(Split(call.toc)) = 6
  /\ Min(OffendingAt(Split(call.toc))) = 4
  /\ Value(Split(call.toc)[1]) = GoInt(0)
  /\ 5 \in MalformedAt(Split(call.toc))

(***************************************************************************)
(* C20.  The array Put hands to the native library.                        *)
(***************************************************************************)
\* The offsets[k], k >= 1, whose track number first+k-1 is slot s.
StoredAt(s) ==
  {k \in 1..(Len(call.offsets) - 1) : GoAdd(call.first, GoInt(k - 1)) = GoInt(s)}

\* The value the claim gives slot s: offsets[0] in slot 0, offsets[k] in slot
\* first+k-1, 0 in every other slot.
SlotByTrack(s) ==
  IF s = 0 THEN Arg(0)
  ELSE IF StoredAt(s) # {} THEN Arg(CHOOSE k \in StoredAt(s) : TRUE)
  ELSE GoInt(0)

\* C20: for first >= 1, Put fills the 100-slot array handed to the native
\* library by track number: slot 0 = offsets[0]; slot first+k-1 = offsets[k]
\* for each k >= 1 with first+k-1 <= 99; every other slot is 0; offsets whose
\* track number would exceed 99 are not stored, and the call is still made,
\* with last = first + len(offsets) - 2.
C20_SlotsByTrack ==
  (call.op = "Put" /\ Len(call.offsets) >= 1 /\ ~GoLess(call.first, GoInt(1)))
    => /\ c_offsets(call.first, call.offsets).stop # "panic"
       /\ \A s \in Slots :
            GoOfC(c_offsets(call.first, call.offsets).c[s]) = SlotByTrack(s)
       /\ Count(log, "discid_put") = 1
       /\ GoOfC(CInt(PutLast(call.first, call.offsets))) = ArgLast

(***************************************************************************)
(* C21.  The two outcomes of the native call.                              *)
(***************************************************************************)
\* The position of the one x in s.
Index(s, x) == CHOOSE k \in 1..Len(s) : s[k] = x

\* The native call the construction made, if it came that far.
NativeCall ==
  IF call.op = "ReadFeatures" THEN "discid_read_sparse" ELSE "discid_put"

\* C21: when the native call made by ReadFeatures or Put reports failure, the
\* error message is read from the handle strictly before the handle is freed,
\* the handle is freed exactly once, and the call returns the zero Disc with a
\* non-nil error; when it reports success, the call does not free the handle,
\* the returned Disc holds it, and the error is nil.
C21_FailureThenFree ==
  (call.op \in {"Put", "Parse", "ReadFeatures"} /\ Count(log, NativeCall) > 0)
    => /\ Count(log, NativeCall) = 1
       /\ outcome \in {"ok", "err"}
       /\ outcome = "err"
            => /\ Count(log, "discid_get_error_msg") = 1
               /\ Count(log, "discid_free") = 1
               /\ Index(log, NativeCall) < Index(log, "discid_get_error_msg")
               /\ Index(log, "discid_get_error_msg") < Index(log, "discid_free")
               /\ disc = "nil"
               /\ ~native.alive
               /\ err = ErrorString(native.d.error_msg, <<>>)
               /\ err # NoErr
       /\ outcome = "ok"
            => /\ disc = "handle"
               /\ err = NoErr
               /\ Count(log, "discid_get_error_msg") = 0
               /\ native.d.success
               /\ native.alive => Count(log, "discid_free") = 0
               /\ ~native.alive
                    => Count(log, "discid_free") = 1 /\ log[Len(log)] = "discid_free"

\* The read of a device that does not exist failed: the message was read,
\* then the handle freed, then the device string.
C21_Witness ==
  /\ call.op = "ReadFeatures"
  /\ call.device = "notadevice"
  /\ outcome = "err"
  /\ disc = "nil"
  /\ err = ErrorString("cannot open device", <<>>)
  /\ log = <<"discid_new", "CString", "discid_read_sparse", "discid_get_error_msg",
             "discid_free", "free">>

(***************************************************************************)
(* C22.  Parse is total.                                                   *)
(***************************************************************************)
\* The upper bound trackCount+1 of the slice Parse passes to Put, from the
\* tokens.
SliceEnd(parts) == GoAdd(ImpliedTracks(parts), GoInt(1))

\* C22: for every input string, also one whose first track number exceeds the
\* last, Parse returns either a Disc with a nil error or the zero Disc with a
\* non-nil error and never panics; every write offsets[i-2] stays inside
\* 0..99, and the slice offsets[0:trackCount+1] passed to Put has valid bounds
\* and holds at least the leadout.
C22_ParseTotal ==
  call.op = "Parse"
    => /\ outcome \in {"ok", "err"}
       /\ outcome = "ok" => (disc = "handle" /\ err = NoErr)
       /\ outcome = "err" => (disc = "nil" /\ err # NoErr)
       /\ \A i \in 2..(Len(Split(call.toc)) - 1) :
            (\A j \in OffendingAt(Split(call.toc)) : j > i) => i - 2 \in Slots
       /\ ParseError(Split(call.toc), call.toc) = NoErr
            => /\ ~GoLess(SliceEnd(Split(call.toc)), GoInt(1))
               /\ ~GoLess(GoInt(100), SliceEnd(Split(call.toc)))

(***************************************************************************)
(* C23.  Put is total.                                                     *)
(***************************************************************************)
\* The indices first+i the loop of Put writes at: those of the elements i of
\* offsets[1:] up to the first whose track number exceeds 99.
WrittenAt ==
  {GoAdd(call.first, GoInt(i)) :
     i \in {j \in 0..(Len(call.offsets) - 2) :
              \A h \in 0..j : ~GoLess(GoInt(99), GoAdd(call.first, GoInt(h)))}}

\* C23: for every first, also first <= 0, and every offsets slice, also the
\* empty one, Put returns either a Disc or an error without panicking; every
\* index first+i written into the 100-slot array lies in 0..99, offsets[0] is
\* only read when it exists, and the leadout stored in slot 0 is never
\* overwritten by a track offset.
C23_PutTotal ==
  call.op = "Put"
    => /\ outcome \in {"ok", "err"}
       /\ outcome = "ok" => (disc = "handle" /\ err = NoErr)
       /\ outcome = "err" => (disc = "nil" /\ err # NoErr)
       /\ \A t \in WrittenAt : ~GoLess(t, GoInt(0)) /\ ~GoLess(GoInt(99), t)
       /\ GoInt(0) \notin WrittenAt
       /\ Len(call.offsets) >= 1
            => c_offsets(call.first, call.offsets).c[0] = CInt(Arg(0))

====
